---------------------------- MODULE Spec2Model ----------------------------
(***************************************************************************)
(* Rivertown Ball Company chat assistant: the parameter extractors, the    *)
(* order lookup / language-model responder, the customer-service call-back *)
(* handler (src/bedrock_utils.py) and the chat session script that stores  *)
(* and renders the conversation (src/app.py).                              *)
(*                                                                         *)
(* Texts are TLA+ strings; a character is a string of length one.          *)
(***************************************************************************)
EXTENDS Integers, Sequences, FiniteSets, TLC

VARIABLES
    messages,      \* st.session_state.messages: the chat history
    phone_number,  \* st.session_state.phone_number
    cs_mode,       \* st.session_state.cs_mode
    prompt,        \* the utterance of the last turn ("" before the first)
    response,      \* what the last turn's routing gave back to the script
    invoked,       \* adapter invocations made during the last turn
    screen,        \* what the last script run rendered, in order
    phone,         \* result of extract_phone_number on prompt (SpecPhone)
    name           \* result of extract_customer_name on prompt (SpecName)

vars == <<messages, phone_number, cs_mode, prompt, response, invoked, screen,
          phone, name>>

-----------------------------------------------------------------------------
(* Characters and Python's str methods                                     *)

LowerLetters == <<"a","b","c","d","e","f","g","h","i","j","k","l","m",
                  "n","o","p","q","r","s","t","u","v","w","x","y","z">>

UpperLetters == <<"A","B","C","D","E","F","G","H","I","J","K","L","M",
                  "N","O","P","Q","R","S","T","U","V","W","X","Y","Z">>

Digits == {"0","1","2","3","4","5","6","7","8","9"}

Letters == {LowerLetters[i] : i \in 1..26} \cup {UpperLetters[i] : i \in 1..26}

\* the characters \s matches, among those the texts of the model are made of
Whitespace == {" ", "\t", "\n", "\r", "\f"}

Ch(s, i) == SubSeq(s, i, i)

\* str.lower() / str.upper() on one character
ToLower == [c \in {UpperLetters[i] : i \in 1..26} |->
               LowerLetters[CHOOSE i \in 1..26 : UpperLetters[i] = c]]

ToUpper == [c \in {LowerLetters[i] : i \in 1..26} |->
               UpperLetters[CHOOSE i \in 1..26 : LowerLetters[i] = c]]

CharLower(c) == IF c \in DOMAIN ToLower THEN ToLower[c] ELSE c

CharUpper(c) == IF c \in DOMAIN ToUpper THEN ToUpper[c] ELSE c

RECURSIVE Lower(_)
\* str.lower()
Lower(s) == IF s = "" THEN "" ELSE CharLower(Head(s)) \o Lower(Tail(s))

RECURSIVE TitleFrom(_, _)
\* str.title(): a letter that follows a non-letter is upper-cased, every
\* other letter lower-cased; prevIsLetter is the state of the scan
TitleFrom(s, prevIsLetter) ==
    IF s = "" THEN ""
    ELSE LET c == Head(s)
         IN  (IF prevIsLetter THEN CharLower(c) ELSE CharUpper(c))
             \o TitleFrom(Tail(s), c \in Letters)

Title(s) == TitleFrom(s, FALSE)

RECURSIVE FilterDigits(_)
\* ''.join(filter(str.isdigit, s))
FilterDigits(s) ==
    IF s = "" THEN ""
    ELSE (IF Head(s) \in Digits THEN Head(s) ELSE "") \o FilterDigits(Tail(s))

\* s[a:b] for 0 <= a <= b (Python slice, end exclusive, clipped to the text)
Slice(s, a, b) ==
    LET hi == IF b > Len(s) THEN Len(s) ELSE b
    IN  IF a >= hi THEN "" ELSE SubSeq(s, a + 1, hi)

\* s[-n:] for n > 0: the last n characters, the whole text when shorter
LastN(s, n) == IF Len(s) <= n THEN s ELSE SubSeq(s, Len(s) - n + 1, Len(s))

\* s[-a:-b] for a > b > 0 on a text of at least a characters
NegSlice(s, a, b) == SubSeq(s, Len(s) - a + 1, Len(s) - b)

\* `sub in s`
Contains(s, sub) ==
    \E i \in 1..(Len(s) - Len(sub) + 1) : SubSeq(s, i, i + Len(sub) - 1) = sub

-----------------------------------------------------------------------------
(* re.search: a backtracking matcher over the pattern constructs the       *)
(* extractor's patterns use.  A pattern is a sequence of nodes:            *)
(*   Lit(t)      the literal text t                                        *)
(*   Plus(S)     one or more characters of S, greedy      [a-zA-Z]+  \s+   *)
(*   LazyAny     any characters but newlines, as few as possible   .*?     *)
(*   Opt(p)      the pattern p or nothing, p preferred    (?:p)?           *)
(*   Alt(ps)     the first of the patterns ps that leads to a match  a|b   *)
(*   Group(k, p) p, captured as group k                   (p)              *)

Lit(t) == [op |-> "lit", t |-> t]
Plus(S) == [op |-> "plus", set |-> S]
LazyAny == [op |-> "lazy"]
Opt(p) == [op |-> "opt", p |-> p]
Alt(ps) == [op |-> "alt", ps |-> ps]
Group(k, p) == <<[op |-> "open", k |-> k]>> \o p \o <<[op |-> "close", k |-> k]>>

NoMatch == [matched |-> FALSE]

NoGroups == [k \in 1..2 |-> [from |-> 0, to |-> 0]]

RECURSIVE MatchHere(_, _, _, _)
RECURSIVE MatchAlt(_, _, _, _, _)

\* The first way, in the engine's order of preference, to match the node
\* sequence todo against s from position i on (1-based); g holds the
\* capture positions so far.
MatchHere(todo, s, i, g) ==
    IF todo = <<>> THEN [matched |-> TRUE, g |-> g]
    ELSE
    LET n == Head(todo)
        rest == Tail(todo)
    IN  CASE n.op = "lit" ->
                IF i + Len(n.t) - 1 <= Len(s) /\ SubSeq(s, i, i + Len(n.t) - 1) = n.t
                THEN MatchHere(rest, s, i + Len(n.t), g)
                ELSE NoMatch
          [] n.op = "plus" ->
                IF i <= Len(s) /\ Ch(s, i) \in n.set
                THEN LET more == MatchHere(todo, s, i + 1, g)
                     IN  IF more.matched THEN more
                         ELSE MatchHere(rest, s, i + 1, g)
                ELSE NoMatch
          [] n.op = "lazy" ->
                LET now == MatchHere(rest, s, i, g)
                IN  IF now.matched THEN now
                    ELSE IF i <= Len(s) /\ Ch(s, i) # "\n"
                         THEN MatchHere(todo, s, i + 1, g)
                    ELSE NoMatch
          [] n.op = "opt" ->
                LET with == MatchHere(n.p \o rest, s, i, g)
                IN  IF with.matched THEN with
                    ELSE MatchHere(rest, s, i, g)
          [] n.op = "alt" -> MatchAlt(n.ps, rest, s, i, g)
          [] n.op = "open" ->
                MatchHere(rest, s, i, [g EXCEPT ![n.k].from = i])
          [] n.op = "close" ->
                MatchHere(rest, s, i, [g EXCEPT ![n.k].to = i - 1])

MatchAlt(ps, rest, s, i, g) ==
    IF ps = <<>> THEN NoMatch
    ELSE LET first == MatchHere(Head(ps) \o rest, s, i, g)
         IN  IF first.matched THEN first
             ELSE MatchAlt(Tail(ps), rest, s, i, g)

RECURSIVE SearchFrom(_, _, _)
SearchFrom(pattern, s, i) ==
    IF i > Len(s) + 1 THEN NoMatch
    ELSE LET here == MatchHere(pattern, s, i, NoGroups)
         IN  IF here.matched THEN here
             ELSE SearchFrom(pattern, s, i + 1)

\* re.search(pattern, s): the leftmost match
Search(pattern, s) == SearchFrom(pattern, s, 1)

\* match.group(k)
GroupText(m, s, k) == SubSeq(s, m.g[k].from, m.g[k].to)

-----------------------------------------------------------------------------
(* extract_customer_name                                                   *)

Word == Plus(Letters)
Space == Plus(Whitespace)
TwoWords == Group(1, <<Word>>) \o <<Space>> \o Group(2, <<Word>>)
Orders == <<Lit("order"), Opt(<<Lit("s")>>)>>
ForOf == Alt(<< <<Lit("for")>>, <<Lit("of")>> >>)
Possessive == Opt(<<Lit("'s")>>)

\* show\s+(?:me\s+)?(?:the\s+)?(?:orders?\s+(?:for|of)\s+)?([a-zA-Z]+)\s+([a-zA-Z]+)
PatternShow ==
    <<Lit("show"), Space, Opt(<<Lit("me"), Space>>), Opt(<<Lit("the"), Space>>),
      Opt(Orders \o <<Space, ForOf, Space>>)>> \o TwoWords

\* (?:what\s+(?:are|were)\s+)?([a-zA-Z]+)\s+([a-zA-Z]+)(?:'s)?\s+orders?
PatternWhat ==
    <<Opt(<<Lit("what"), Space, Alt(<< <<Lit("are")>>, <<Lit("were")>> >>), Space>>)>>
    \o TwoWords \o <<Possessive, Space>> \o Orders

\* find\s+(?:the\s+)?orders?\s+(?:for|of)\s+([a-zA-Z]+)\s+([a-zA-Z]+)
PatternFind ==
    <<Lit("find"), Space, Opt(<<Lit("the"), Space>>)>> \o Orders
    \o <<Space, ForOf, Space>> \o TwoWords

\* (?:get|fetch|pull|retrieve)\s+([a-zA-Z]+)\s+([a-zA-Z]+)(?:'s)?\s+orders?
PatternGet ==
    <<Alt(<< <<Lit("get")>>, <<Lit("fetch")>>, <<Lit("pull")>>, <<Lit("retrieve")>> >>),
      Space>> \o TwoWords \o <<Possessive, Space>> \o Orders

\* ([a-zA-Z]+)\s+([a-zA-Z]+)(?:'s)?\s+(?:order|purchase|transaction)s?
PatternPossessive ==
    TwoWords
    \o <<Possessive, Space,
         Alt(<< <<Lit("order")>>, <<Lit("purchase")>>, <<Lit("transaction")>> >>),
         Opt(<<Lit("s")>>)>>

\* orders?\s+(?:for|by|from)\s+([a-zA-Z]+)\s+([a-zA-Z]+)
PatternOrdersFor ==
    Orders
    \o <<Space, Alt(<< <<Lit("for")>>, <<Lit("by")>>, <<Lit("from")>> >>), Space>>
    \o TwoWords

\* .*?(?:order|purchase|history).*?([a-zA-Z]+)\s+([a-zA-Z]+)
PatternCatchAll ==
    <<LazyAny,
      Alt(<< <<Lit("order")>>, <<Lit("purchase")>>, <<Lit("history")>> >>),
      LazyAny>> \o TwoWords

patterns ==
    <<PatternShow, PatternWhat, PatternFind, PatternGet, PatternPossessive,
      PatternOrdersFor, PatternCatchAll>>

None == [some |-> FALSE]

RECURSIVE FirstPattern(_, _)
\* the for loop over patterns: the first pattern that matches decides
FirstPattern(ps, text) ==
    IF ps = <<>> THEN None
    ELSE LET m == Search(Head(ps), Lower(text))
         IN  IF m.matched
             THEN [some |-> TRUE,
                   first |-> Title(GroupText(m, Lower(text), 1)),
                   last |-> Title(GroupText(m, Lower(text), 2))]
             ELSE FirstPattern(Tail(ps), text)

extract_customer_name(text) == FirstPattern(patterns, text)
-----------------------------------------------------------------------------
(* The utterances of the chat session: each phrase alone and every two     *)
(* different ones in a row, so that a name, a customer-service phrase and  *)
(* a phone number meet in one utterance                                    *)

Phrases == {"show me John Smith", "Call me", "tell me 1 joke", "(719) 555-0199"}

Utterances ==
    Phrases \cup {ab[1] \o " " \o ab[2] : ab \in {p \in Phrases \X Phrases : p[1] # p[2]}}

\* customer_name = extract_customer_name(prompt), evaluated once for each
\* utterance of the session
CustomerNames == [u \in Utterances |-> extract_customer_name(u)]

-----------------------------------------------------------------------------
(* extract_phone_number                                                    *)

\* a Python str result, as opposed to None
Str(t) == [some |-> TRUE, text |-> t]

\* Faulty variant: 11 digits are taken whatever the first one is.
extract_phone_any_eleven(text) ==
    LET cleaned_number == FilterDigits(text)
    IN  IF Len(cleaned_number) = 10 THEN Str("+1" \o cleaned_number)
        ELSE IF Len(cleaned_number) = 11 THEN Str("+" \o cleaned_number)
        ELSE None

extract_phone_number(text) ==
    LET cleaned_number == FilterDigits(text)
    IN  IF Len(cleaned_number) = 10 THEN Str("+1" \o cleaned_number)
        ELSE IF Len(cleaned_number) = 11 /\ Head(cleaned_number) = "1"
             THEN Str("+" \o cleaned_number)
        ELSE None

-----------------------------------------------------------------------------
(* The backends, as the outcomes one call to each can have                 *)

Order1 == [order_id |-> "abcd1234efgh", product |-> "Maple Sphere", quantity |-> 2,
           order_date |-> "2024-01-05", total_cents |-> 3998]

Order2 == [order_id |-> "zz99", product |-> "Oak Ball", quantity |-> 1,
           order_date |-> "2024-02-11", total_cents |-> 500]

\* get_customer_orders(init_dynamodb(), first, last): a list of records, or an error
StoreOutcomes ==
    {[raises |-> FALSE, orders |-> <<>>],
     [raises |-> FALSE, orders |-> <<Order1, Order2>>],
     [raises |-> TRUE, orders |-> <<>>]}

\* runtime_client.invoke_model + json.loads: a body with a completion, a body
\* without one, or an error
LlmOutcomes ==
    {[raises |-> FALSE, has_completion |-> TRUE, completion |-> "Why did the ball roll?"],
     [raises |-> FALSE, has_completion |-> FALSE, completion |-> ""],
     [raises |-> TRUE, has_completion |-> FALSE, completion |-> ""]}

\* requests.post(.../calls): a response with a status code, or an error
CallOutcomes ==
    {[raises |-> FALSE, status_code |-> 200],
     [raises |-> FALSE, status_code |-> 500],
     [raises |-> TRUE, status_code |-> 0]}

Envs == [store : StoreOutcomes, llm : LlmOutcomes, call : CallOutcomes]

-----------------------------------------------------------------------------
(* format_order_table (the style attributes of the markup are left out)    *)

TwoDigits(n) == IF n < 10 THEN "0" \o ToString(n) ELSE ToString(n)

\* f"{total_price:.2f}" of a price held in cents
Format2f(cents) == ToString(cents \div 100) \o "." \o TwoDigits(cents % 100)

OrderBlock(order) ==
    "<div><div>Order #" \o Slice(order.order_id, 0, 8) \o "...</div>"
    \o "<div>Product</div><div>" \o order.product \o "</div>"
    \o "<div>Quantity</div><div>" \o ToString(order.quantity) \o " units</div>"
    \o "<div>Order Date</div><div>" \o order.order_date \o "</div>"
    \o "<div>Total Amount: $" \o Format2f(order.total_cents) \o "</div></div>"

RECURSIVE OrderBlocks(_)
OrderBlocks(orders) ==
    IF orders = <<>> THEN ""
    ELSE OrderBlock(Head(orders)) \o OrderBlocks(Tail(orders))

format_order_table(orders) ==
    IF orders = <<>> THEN "<div>No orders found.</div>"
    ELSE "<div><h2>Order History</h2>" \o OrderBlocks(orders) \o "</div>"

-----------------------------------------------------------------------------
(* get_response_with_rag                                                   *)

Text(c) == [type |-> "text", content |-> c]
Html(c) == [type |-> "html", content |-> c]

\* The log of the backend calls of one turn: what each call was given and
\* how it ended
Invoked(store, llm, calls) == [store |-> store, llm |-> llm, calls |-> calls]

NothingInvoked == Invoked(<<>>, <<>>, <<>>)

\* a call that returned value, and one that raised
Returned(value, log) == [raised |-> FALSE, value |-> value, invoked |-> log]

Raised(log) == [raised |-> TRUE, value |-> [type |-> "error", content |-> ""],
                invoked |-> log]

NotFoundText(first_name, last_name) ==
    "I couldn't find any orders for " \o first_name \o " " \o last_name
    \o ". Would you like to place a new order?"

LlmApology ==
    "I apologize, but I'm having trouble connecting to my language model. "
    \o "Please try again in a moment."

\* Faulty variant: a lookup that finds no orders goes on to the chat.
rag_not_found_falls_through(text, env) ==
    LET customer_name == CustomerNames[text]
        looked_up == Invoked(<<env.store>>, <<>>, <<>>)
        both == Invoked(<<env.store>>, <<env.llm>>, <<>>)
        asked == Invoked(<<>>, <<env.llm>>, <<>>)
        chat == Text(IF env.llm.raises THEN LlmApology
                     ELSE IF env.llm.has_completion THEN env.llm.completion ELSE "")
    IN  IF customer_name.some
        THEN IF env.store.raises THEN Raised(looked_up)
             ELSE IF env.store.orders # <<>>
                  THEN Returned(Html(format_order_table(env.store.orders)), looked_up)
                  ELSE Returned(chat, both)
        ELSE Returned(chat, asked)

\* Faulty variant: an error of the language model is raised again.
rag_llm_error_raises(text, env) ==
    LET customer_name == CustomerNames[text]
        looked_up == Invoked(<<env.store>>, <<>>, <<>>)
        asked == Invoked(<<>>, <<env.llm>>, <<>>)
    IN  IF customer_name.some
        THEN IF env.store.raises THEN Raised(looked_up)
             ELSE IF env.store.orders # <<>>
                  THEN Returned(Html(format_order_table(env.store.orders)), looked_up)
                  ELSE Returned(Text(NotFoundText(customer_name.first,
                                                  customer_name.last)), looked_up)
        ELSE IF env.llm.raises THEN Raised(asked)
             ELSE Returned(Text(IF env.llm.has_completion
                                THEN env.llm.completion ELSE ""), asked)

get_response_with_rag(text, env) ==
    LET customer_name == CustomerNames[text]
        looked_up == Invoked(<<env.store>>, <<>>, <<>>)
        asked == Invoked(<<>>, <<env.llm>>, <<>>)
    IN  IF customer_name.some
        THEN \* 1. order lookup; an error of the store reaches the outer
             \*    except, which logs it and raises it again
             IF env.store.raises THEN Raised(looked_up)
             ELSE IF env.store.orders # <<>>
                  THEN Returned(Html(format_order_table(env.store.orders)), looked_up)
                  ELSE Returned(Text(NotFoundText(customer_name.first,
                                                  customer_name.last)), looked_up)
        ELSE \* 2. regular chat; the inner except turns an error into the apology
             IF env.llm.raises THEN Returned(Text(LlmApology), asked)
             ELSE Returned(Text(IF env.llm.has_completion
                                THEN env.llm.completion ELSE ""), asked)

-----------------------------------------------------------------------------
(* handle_customer_service_request                                         *)

CsKeywords ==
    {"speak to someone", "talk to a person", "customer service",
     "representative", "speak to a human", "talk to someone",
     "call me", "contact me"}

is_cs_request(text) ==
    LET lowered == Lower(text)
    IN  \E keyword \in CsKeywords : Contains(lowered, keyword)

is_just_numbers(text) == Len(FilterDigits(text)) >= 10

CsPrompt ==
    "I'd be happy to have Sara, our customer service specialist, give you a call! "
    \o "What's the best phone number to reach you at? You can share it in any format "
    \o "like: 123-456-7890 or (123) 456-7890"

CallConfirmText(formatted_phone) ==
    "Perfect! Sara will be calling you right now at "
    \o NegSlice(formatted_phone, 10, 7) \o "-" \o NegSlice(formatted_phone, 7, 4)
    \o "-" \o LastN(formatted_phone, 4) \o ". "
    \o "She's looking forward to helping you with any questions you have about our "
    \o "artisanal wooden balls!"

CallFailedText ==
    "I apologize, but I'm having trouble connecting with Sara at the moment. "
    \o "Please try again in a few minutes or call us directly at (719) 266-2837"

CallErrorText ==
    "I apologize, but I'm experiencing technical difficulties arranging the call. "
    \o "Please contact our customer service directly at (719) 266-2837"

\* the result is the returned text (or None) and the requests posted to the
\* calling service, each with how it ended

\* Faulty variant: the digits are tested before the trigger phrases.
handle_numbers_first(text, env) ==
    IF is_just_numbers(text)
    THEN LET formatted_phone == "+1" \o LastN(FilterDigits(text), 10)
             posted == <<[phone_number |-> formatted_phone, outcome |-> env.call]>>
         IN  IF env.call.raises THEN [ret |-> Str(CallErrorText), calls |-> posted]
             ELSE IF env.call.status_code = 200
                  THEN [ret |-> Str(CallConfirmText(formatted_phone)), calls |-> posted]
                  ELSE [ret |-> Str(CallFailedText), calls |-> posted]
    ELSE IF is_cs_request(text) THEN [ret |-> Str(CsPrompt), calls |-> <<>>]
    ELSE [ret |-> None, calls |-> <<>>]

\* Faulty variant: the first 10 digits are called, not the last 10.
handle_first_ten(text, env) ==
    IF is_cs_request(text) THEN [ret |-> Str(CsPrompt), calls |-> <<>>]
    ELSE IF is_just_numbers(text)
    THEN LET formatted_phone == "+1" \o Slice(FilterDigits(text), 0, 10)
             posted == <<[phone_number |-> formatted_phone, outcome |-> env.call]>>
         IN  IF env.call.raises THEN [ret |-> Str(CallErrorText), calls |-> posted]
             ELSE IF env.call.status_code = 200
                  THEN [ret |-> Str(CallConfirmText(formatted_phone)), calls |-> posted]
                  ELSE [ret |-> Str(CallFailedText), calls |-> posted]
    ELSE [ret |-> None, calls |-> <<>>]

handle_customer_service_request(text, env) ==
    IF is_cs_request(text) THEN [ret |-> Str(CsPrompt), calls |-> <<>>]
    ELSE IF is_just_numbers(text)
    THEN LET formatted_phone == "+1" \o LastN(FilterDigits(text), 10)
             posted == <<[phone_number |-> formatted_phone, outcome |-> env.call]>>
         IN  IF env.call.raises THEN [ret |-> Str(CallErrorText), calls |-> posted]
             ELSE IF env.call.status_code = 200
                  THEN [ret |-> Str(CallConfirmText(formatted_phone)), calls |-> posted]
                  ELSE [ret |-> Str(CallFailedText), calls |-> posted]
    ELSE [ret |-> None, calls |-> <<>>]

-----------------------------------------------------------------------------
(* get_combined_response (chat_service): the router.  The rules are tried  *)
(* in order: order lookup, customer-service trigger, phone-number          *)
(* completion, general chat.  The result carries the session's cs_mode     *)
(* after the turn.                                                         *)

\* Faulty variant: the trigger leaves the session state as it was.
route_trigger_keeps_mode(text, mode, env) ==
    IF CustomerNames[text].some
    THEN [out |-> get_response_with_rag(text, env), cs_mode |-> mode]
    ELSE LET cs == handle_customer_service_request(text, env)
         IN  IF cs.ret.some
             THEN [out |-> Returned(Text(cs.ret.text), Invoked(<<>>, <<>>, cs.calls)),
                   cs_mode |-> IF is_cs_request(text) THEN mode ELSE FALSE]
             ELSE [out |-> get_response_with_rag(text, env), cs_mode |-> mode]

\* Faulty variant: a phone number leaves the session state as it was.
route_number_keeps_mode(text, mode, env) ==
    IF CustomerNames[text].some
    THEN [out |-> get_response_with_rag(text, env), cs_mode |-> mode]
    ELSE LET cs == handle_customer_service_request(text, env)
         IN  IF cs.ret.some
             THEN [out |-> Returned(Text(cs.ret.text), Invoked(<<>>, <<>>, cs.calls)),
                   cs_mode |-> IF is_cs_request(text) THEN TRUE ELSE mode]
             ELSE [out |-> get_response_with_rag(text, env), cs_mode |-> mode]

route(text, mode, env) ==
    IF CustomerNames[text].some
    THEN [out |-> get_response_with_rag(text, env), cs_mode |-> mode]
    ELSE LET cs == handle_customer_service_request(text, env)
         IN  IF cs.ret.some
             THEN [out |-> Returned(Text(cs.ret.text), Invoked(<<>>, <<>>, cs.calls)),
                   cs_mode |-> is_cs_request(text)]
             ELSE [out |-> get_response_with_rag(text, env), cs_mode |-> mode]

\* response = get_combined_response(runtime_client, kb_client, prompt), evaluated
\* once for each utterance, session state and outcome of the backends
Turn == {<<u, mode, env>> : u \in Utterances, mode \in BOOLEAN, env \in Envs}

Routing == [t \in Turn |-> route(t[1], t[2], t[3])]

-----------------------------------------------------------------------------
(* app.py: the session script                                              *)

MaxTurns == 2

\* a message's content as the Python value it is: a str here, a dict never
PyStr(t) == [py |-> "str", v |-> t]

Message(role, content) == [role |-> role, content |-> content]

Welcome == "Welcome to Rivertown Ball Company! How can I help you today?"

NoResponse == [type |-> "none", content |-> ""]

Markdown(body) == [via |-> "markdown", body |-> body]
StHtml(body) == [via |-> "st_html", body |-> body]
ExceptionBox == [via |-> "exception", body |-> ""]

\* one pass of the history loop
RenderMessage(message) ==
    IF /\ message.role = "assistant"
       /\ message.content.py = "dict"
       /\ message.content.v.type = "html"
    THEN StHtml(message.content.v.content)
    ELSE Markdown(message.content.v)

RenderHistory(history) == [i \in 1..Len(history) |-> RenderMessage(history[i])]

\* an extractor not yet applied, and its result once it is
NotRun == [run |-> FALSE, result |-> None]
Ran(result) == [run |-> TRUE, result |-> result]

\* the first run of the script in a session
Init ==
    /\ messages = <<Message("assistant", PyStr(Welcome))>>
    /\ phone_number = None
    /\ cs_mode = FALSE
    /\ prompt = ""
    /\ response = NoResponse
    /\ invoked = NothingInvoked
    /\ screen = RenderHistory(<<Message("assistant", PyStr(Welcome))>>)
    /\ phone = NotRun
    /\ name = NotRun

\* the turns the history holds: its user messages
Turns(history) == Cardinality({i \in 1..Len(history) : history[i].role = "user"})

\* a run of the script with the utterance u in the chat input
ChatInput(u, env) ==
    /\ Turns(messages) < MaxTurns
    /\ \E r \in {Routing[<<u, cs_mode, env>>]} :
       LET said == Append(messages, Message("user", PyStr(u)))
       IN  /\ prompt' = u
           /\ response' = r.out.value
           /\ invoked' = r.out.invoked
           /\ cs_mode' = r.cs_mode
           /\ IF r.out.raised
              THEN /\ messages' = said
                   /\ screen' = RenderHistory(messages)
                                \o <<Markdown(u), Markdown("Thinking..."), ExceptionBox>>
              ELSE /\ messages' = Append(said, Message("assistant",
                                                       PyStr(r.out.value.content)))
                   /\ screen' = RenderHistory(messages)
                                \o <<Markdown(u), Markdown(r.out.value.content)>>
    /\ UNCHANGED <<phone_number, phone, name>>

\* the Reset Chat button, and the rerun of the script it asks for
ResetChat ==
    /\ messages' = <<>>
    /\ phone_number' = None
    /\ cs_mode' = FALSE
    /\ prompt' = ""
    /\ response' = NoResponse
    /\ invoked' = NothingInvoked
    /\ screen' = RenderHistory(<<>>)
    /\ UNCHANGED <<phone, name>>

Next ==
    \/ \E u \in Utterances, env \in Envs : ChatInput(u, env)
    \/ ResetChat

Spec == Init /\ [][Next]_vars

-----------------------------------------------------------------------------
(* extract_phone_number on its own: every text of at most MaxDigits digits *)
(* 1 and 7, bare or with up to MaxSeparators other characters put in       *)

MaxDigits == 12

MaxSeparators == 1

Separators == {"-", " "}

RECURSIVE DigitStrings(_)
DigitStrings(n) ==
    IF n = 0 THEN {""}
    ELSE LET shorter == DigitStrings(n - 1)
         IN  shorter \cup {d \o c : d \in {x \in shorter : Len(x) = n - 1}, c \in {"1", "7"}}

InsertAt(s, k, c) == SubSeq(s, 1, k) \o c \o SubSeq(s, k + 1, Len(s))

RECURSIVE WithSeparators(_, _)
WithSeparators(texts, n) ==
    IF n = 0 THEN texts
    ELSE LET fewer == WithSeparators(texts, n - 1)
         IN  fewer \cup {InsertAt(t[1], t[2], t[3]) :
                            t \in {x \in fewer \X {0, 3} \X Separators : x[2] <= Len(x[1])}}

PhoneInputs == WithSeparators(DigitStrings(MaxDigits), MaxSeparators)

InitPhone ==
    /\ Init!1 /\ Init!2 /\ Init!3
    /\ prompt \in PhoneInputs
    /\ response = NoResponse
    /\ invoked = NothingInvoked
    /\ screen = <<>>
    /\ phone = NotRun
    /\ name = NotRun

ExtractPhone ==
    /\ ~phone.run
    /\ phone' = Ran(extract_phone_number(prompt))
    /\ UNCHANGED <<messages, phone_number, cs_mode, prompt, response, invoked, screen, name>>

SpecPhone == InitPhone /\ [][ExtractPhone]_vars

-----------------------------------------------------------------------------
(* extract_customer_name on its own: a two-word name in three casings,     *)
(* right after or right before an order phrasing                           *)

Names == {<<"John", "Smith">>, <<"Jane", "Doe">>}

RECURSIVE Upper(_)
Upper(s) == IF s = "" THEN "" ELSE CharUpper(Head(s)) \o Upper(Tail(s))

\* the phrasings that end in an order keyword and a preposition, and others
OrderPrefixes ==
    {"orders for ", "find orders for ", "find the orders for ",
     "show me the orders for ", "show orders of "}

PlainPrefixes == {"", "show me ", "what are ", "get ", "please get "}

\* the phrasings that begin with an order keyword, and others
OrderSuffixes == {"'s orders", " orders", "'s purchases", "'s order"}

PlainSuffixes == {"", " please"}

\* a name next to an order keyword: <<prefix, first, last, suffix>>
NameCases ==
    {<<pre, n[1], n[2], post>> :
        pre \in OrderPrefixes, n \in Names, post \in PlainSuffixes}
    \cup
    {<<pre, n[1], n[2], post>> :
        pre \in PlainPrefixes, n \in Names, post \in OrderSuffixes}

Casings == {"as written", "lower", "upper"}

Cased(t, casing) ==
    IF casing = "lower" THEN Lower(t) ELSE IF casing = "upper" THEN Upper(t) ELSE t

Utter(c, casing) == Cased(c[1] \o c[2] \o " " \o c[3] \o c[4], casing)

NameInputs == {Utter(c, casing) : c \in NameCases, casing \in Casings}

InitName ==
    /\ Init!1 /\ Init!2 /\ Init!3
    /\ prompt \in NameInputs
    /\ response = NoResponse
    /\ invoked = NothingInvoked
    /\ screen = <<>>
    /\ phone = NotRun
    /\ name = NotRun

ExtractName ==
    /\ ~name.run
    /\ name' = Ran(extract_customer_name(prompt))
    /\ UNCHANGED <<messages, phone_number, cs_mode, prompt, response, invoked, screen, phone>>

SpecName == InitName /\ [][ExtractName]_vars

-----------------------------------------------------------------------------
(* Properties of a turn.  They speak of the last turn of the session: its  *)
(* utterance (prompt), what routing gave back (response), the backend      *)
(* calls it made (invoked) and the session state it left.                  *)

\* a turn has been routed since the session began or was last reset
Routed == prompt \in Utterances

\* the rule an utterance falls under, the rules taken in their order
Rule ==
    [u \in Utterances |->
        IF extract_customer_name(u).some THEN "order lookup"
        ELSE IF \E keyword \in CsKeywords : Contains(Lower(u), keyword)
             THEN "customer-service trigger"
        ELSE IF Cardinality({i \in 1..Len(u) : Ch(u, i) \in Digits}) >= 10
             THEN "phone-number completion"
        ELSE "general chat"]

NameLookup == Routed /\ Rule[prompt] = "order lookup"

CsTrigger == Routed /\ Rule[prompt] = "customer-service trigger"

PhoneCompletion == Routed /\ Rule[prompt] = "phone-number completion"

TenDigits == Cardinality({i \in 1..Len(prompt) : Ch(prompt, i) \in Digits}) >= 10

\* the turn before the last one ended with the request for a callback
\* number, so the last turn began in AWAITING_PHONE
BeganAwaitingPhone ==
    /\ Len(messages) >= 4
    /\ messages[Len(messages) - 2].role = "assistant"
    /\ messages[Len(messages) - 2].content.v = CsPrompt

\* C1: an utterance with a customer-service trigger phrase that is no name
\* lookup gets the fixed prompt for a callback number, and no call is placed
\* on that turn, whatever the session state and the digits in the utterance.
C1_TriggerAsksForNumber ==
    CsTrigger =>
        /\ response = Text("I'd be happy to have Sara, our customer service specialist, "
                           \o "give you a call! What's the best phone number to reach you "
                           \o "at? You can share it in any format like: 123-456-7890 or "
                           \o "(123) 456-7890")
        /\ invoked.calls = <<>>

C1_Witness ==
    /\ CsTrigger
    /\ TenDigits
    /\ BeganAwaitingPhone
    /\ response = Text(CsPrompt)

\* C2: an utterance the name extractor finds a name in gets the order-lookup
\* response (the order table as html when the store returns records, the
\* "couldn't find any orders" text for that name when it returns none), and
\* neither the calling service nor the language model is invoked on that turn,
\* whatever the session state, the digits and the trigger phrases in it.
C2_LookupWins ==
    NameLookup =>
        /\ invoked.calls = <<>>
        /\ invoked.llm = <<>>
        /\ Len(invoked.store) = 1
        /\ ~invoked.store[1].raises =>
              IF invoked.store[1].orders # <<>>
              THEN response = Html(format_order_table(invoked.store[1].orders))
              ELSE response = Text("I couldn't find any orders for "
                                   \o CustomerNames[prompt].first \o " "
                                   \o CustomerNames[prompt].last
                                   \o ". Would you like to place a new order?")

C2_Witness ==
    /\ NameLookup
    /\ TenDigits
    /\ BeganAwaitingPhone
    /\ response = Text("I couldn't find any orders for John Smith. "
                       \o "Would you like to place a new order?")

\* C3: after a turn whose utterance matched the customer-service trigger
\* rule the session is in AWAITING_PHONE: cs_mode is true when the next turn
\* starts.
C3_TriggerSetsMode == CsTrigger => cs_mode = TRUE

C3_Witness == CsTrigger /\ cs_mode /\ ~BeganAwaitingPhone /\ Len(messages) = 3

\* C4: an utterance with at least 10 digits that matches neither the order
\* lookup nor the trigger rule places exactly one call, to +1 and the last 10
\* digits of the utterance, in either session state; when the call succeeds
\* the reply shows those 10 digits as XXX-XXX-XXXX.
C4_CallsLastTenDigits ==
    PhoneCompletion =>
        LET ten == LastN(FilterDigits(prompt), 10)
        IN  /\ Len(invoked.calls) = 1
            /\ invoked.calls[1].phone_number = "+1" \o ten
            /\ (~invoked.calls[1].outcome.raises
                /\ invoked.calls[1].outcome.status_code = 200) =>
                  /\ response.type = "text"
                  /\ Contains(response.content,
                              SubSeq(ten, 1, 3) \o "-" \o SubSeq(ten, 4, 6) \o "-"
                              \o SubSeq(ten, 7, 10))

C4_Witness ==
    /\ PhoneCompletion
    /\ prompt = "tell me 1 joke (719) 555-0199"
    /\ ~BeganAwaitingPhone
    /\ invoked.calls = <<[phone_number |-> "+17195550199",
                          outcome |-> [raises |-> FALSE, status_code |-> 200]]>>
    /\ Contains(response.content, "719-555-0199")

\* C5: after a phone-number-completion turn the session is not in
\* AWAITING_PHONE, whether the call succeeded, got a non-success status or
\* raised.
C5_CompletionClearsMode == PhoneCompletion => cs_mode = FALSE

C5_Witness ==
    /\ PhoneCompletion
    /\ BeganAwaitingPhone
    /\ invoked.calls[1].outcome.raises
    /\ ~cs_mode

\* C6: whatever the utterance and the outcomes of the backends, routing a
\* turn raises nothing and gives a response of kind text or html.
C6_AlwaysWellFormed == Routed => response.type \in {"text", "html"}

\* C7: when an utterance reaches the general chat and the call to the
\* language model raises, the response is the fixed apology as text, and
\* nothing is raised.
C7_ChatErrorApologises ==
    (Routed /\ invoked.llm # <<>> /\ invoked.llm[1].raises) =>
        response = Text("I apologize, but I'm having trouble connecting to my "
                        \o "language model. Please try again in a moment.")

C7_Witness ==
    /\ Routed
    /\ prompt = "tell me 1 joke"
    /\ invoked.llm # <<>> /\ invoked.llm[1].raises
    /\ response.type = "text"

\* C10: a response of kind html is rendered as markup on the turn that
\* produces it, and is stored in the history with its kind, so that every
\* later run of the script renders it as markup again.
C10_HtmlRenderedAsMarkup ==
    (Routed /\ response.type = "html") =>
        /\ screen[Len(screen)] = StHtml(response.content)
        /\ RenderMessage(messages[Len(messages)]) = StHtml(response.content)

-----------------------------------------------------------------------------
(* Properties of the extractors                                            *)

\* C8: extract_phone_number gives +1 and the digits when exactly 10 digits
\* remain after the other characters are dropped, + and the digits when
\* exactly 11 remain and the first is 1, and nothing for any other count
\* (11 digits that do not start with 1 included).
C8_PhoneByDigitCount ==
    phone.run =>
        LET at == {i \in 1..Len(prompt) : Ch(prompt, i) \in Digits}
            digits == FilterDigits(prompt)
        IN  /\ Len(digits) = Cardinality(at)
            /\ IF Cardinality(at) = 10 THEN phone.result = Str("+1" \o digits)
               ELSE IF Cardinality(at) = 11 /\ Ch(prompt, CHOOSE i \in at : \A j \in at : i <= j) = "1"
                    THEN phone.result = Str("+" \o digits)
               ELSE phone.result = None

C8_Witness ==
    /\ phone.run
    /\ prompt = "171-71717171"
    /\ phone.result = Str("+17171717171")

\* C9: (the patterns being tried in their fixed order, the first match
\* deciding) for every utterance that holds a two-word name next to an order
\* keyword, extract_customer_name gives that name, title-cased, whatever the
\* casing of the utterance.
C9_NameNextToKeyword ==
    name.run =>
        \A c \in NameCases, casing \in Casings :
            prompt = Utter(c, casing) =>
                name.result = [some |-> TRUE, first |-> c[2], last |-> c[3]]

=============================================================================
